---- MODULE Spec2Model ----
(***************************************************************************)
(* A model of the panda build engine:                                      *)
(*   - the Builder (orchestrator) of packages/node: configCache,           *)
(*     contentFilesCache, the p-limit admission gate, setup / extract /    *)
(*     emit / toString / write / registerDependency;                       *)
(*   - the HashFactory of packages/generator/src/engines/hash-factory.ts.  *)
(* Spec       : one Builder extracting from a changing set of files.       *)
(* SpecConfig : two Builders and their changing configuration dependencies.*)
(* SpecOps    : two Builders and every operation of the Builder.           *)
(* SpecPool   : two Builders with enough files in scope to fill the gate.  *)
(* SpecOrder  : extract() with the gate admitting tasks in any order.      *)
(* SpecReload : one Builder, extract() calls while the configuration is    *)
(*              reloaded.                                                  *)
(* SpecHash   : the HashFactory.                                           *)
(* SpecRepeat : a process* call of the HashFactory made twice in a row.    *)
(* SpecStyle  : hashStyleObject on a style object and its reorderings.     *)
(* SpecShapes : hashStyleObject on style objects of two documented shapes. *)
(***************************************************************************)
EXTENDS Integers, Sequences, FiniteSets, TLC

(***************************************************************************)
(* Bounds of the model.                                                    *)
(***************************************************************************)
\* modification times are 1..MaxTime
MaxTime == 2
\* contexts the config loader can create in one run
MaxCtx == 2
\* extract() calls in one run of Spec
MaxCalls == 3
\* changes of source files in one run
MaxTouch == 2
\* changes of configuration dependencies in one run
MaxDepTouch == 2
\* extract() calls in one run of SpecOps
OpsCalls == 1
\* HashFactory instances in one run of SpecHash
MaxFactories == 2
\* process* calls in one run of SpecHash
MaxHashOps == 3
\* entries, nested ones counted, of the style objects of SpecStyle
MaxEntries == 4
\* conditions next to base in the conditional values of SpecShapes
MaxConds == 2
\* extract() calls in one run of SpecPool
PoolCalls == 2
\* extract() calls in SpecOrder
OrderCalls == 1
\* extract() calls in one run of SpecReload
ReloadCalls == 2

\* const limit = pLimit(20)
Limit == 20

Builders == {"b1", "b2"}
ConfigPaths == {"panda.config.ts"}

\* source files that the include globs can match, in the order getFiles() lists them
FileOrder == <<"f01", "f02", "f03", "f04", "f05", "f06", "f07", "f08", "f09", "f10", "f11">>
AllFiles == {FileOrder[i] : i \in 1..Len(FileOrder)}
\* the files on disk in Spec, and in SpecPool
SmallScope == {"f01", "f02"}
\* what getFiles() may report in Spec, and the Builders that extract there
ExtractScopes == {SmallScope, {"f01"}}
ExtractBuilders == {"b1"}
PoolScope == AllFiles

\* configuration dependency files: getConfigDependencies() finds FoundDeps,
\* a loaded context may declare ExtraDeps as its own dependencies
FoundDeps == {"cfg"}
ExtraDeps == {"dep"}
Deps == FoundDeps \cup ExtraDeps

\* sentinels: no context, a map without the key, a file that is not on disk
NoCtx == 0
Unset == -2
NoFile == -1
EmptyMap(S) == [x \in S |-> Unset]
\* configCache.get(configPath) === undefined
NoCache == [context |-> NoCtx, deps |-> {}, depsModifiedMap |-> EmptyMap(Deps),
            hasMap |-> FALSE]

Times == 1..MaxTime
Ctxs == 1..MaxCtx

\* what the external extractor makes of a file: it throws, it finds no style
\* usage (undefined), or it returns a CSS fragment (a non-empty set of rules)
Throws == [throws |-> TRUE, css |-> {}]
NoCss == [throws |-> FALSE, css |-> {}]
Css(rules) == [throws |-> FALSE, css |-> rules]
Contents == {Throws, NoCss, Css({"r1"})}

VARIABLES
  \* the file system
  fileTime,            \* file -> mtimeMs, NoFile when the file is not on disk
  fileContent,         \* file -> what the extractor makes of the file
  depTime,             \* configuration dependency -> mtimeMs or NoFile
  scope,               \* the files on disk that the include globs match
  touches,             \* changes of source files so far
  depTouches,          \* changes of configuration dependencies so far
  \* module state of the builder
  configCache,         \* configPath -> ConfigData or NoCache
  contentFilesCache,   \* context -> ContentData
  ctxDependencies,     \* context -> context.dependencies
  nCtx,                \* contexts created so far
  queue,               \* p-limit: the tasks waiting, oldest first
  activeCount,         \* p-limit: the tasks in flight
  \* Builder instances
  context,             \* builder -> this.context
  hasEmitted,          \* builder -> this.hasEmitted
  hasConfigChanged,    \* builder -> this.hasConfigChanged
  configDependencies,  \* builder -> this.configDependencies
  setupPc,             \* builder -> where its setup() is suspended
  setupArgs,           \* builder -> the configPath and depsModifiedMap of that setup()
  \* extract() calls
  calls,               \* sequence of extract() calls, in call order
  \* history
  setupOk,             \* builder -> a setup() has completed successfully
  lastSetup,           \* builder -> what the most recent setup() detected
  emitCalls,           \* emit() calls in this process so far (0, 1, 2 = more)
  failedAt,            \* context -> file -> mtime of the last failed extraction
  writtenBy,           \* context -> file -> the contexts whose extractions wrote the
                       \* file's entry of that context's Content Cache
  extractedOn,         \* the contexts extract() has been called with
  ev,                  \* what the last step did
  \* HashFactory instances
  hf,                  \* instance -> its six registries
  runs,                \* instance -> its calls and what they atomized once
  sample               \* a style object or a call under test, and what hashing it gave

bvars == <<fileTime, fileContent, depTime, scope, touches, depTouches, configCache,
           contentFilesCache, ctxDependencies, nCtx, queue, activeCount, context,
           hasEmitted, hasConfigChanged, configDependencies, setupPc, setupArgs,
           calls, setupOk, lastSetup, emitCalls, failedAt, writtenBy, extractedOn, ev>>
hvars == <<hf, runs, sample>>
vars == <<bvars, hvars>>

(***************************************************************************)
(* Events: what one step did, for the properties to read.                  *)
(***************************************************************************)
NoEv == [op |-> "none", b |-> "", error |-> "", ready |-> FALSE, file |-> "",
         mtime |-> Unset, recorded |-> Unset, recordedAfter |-> Unset,
         failed |-> Unset, invoked |-> FALSE, outcome |-> "", emitted |-> FALSE,
         prior |-> 0, root |-> "", modified |-> FALSE, loaded |-> FALSE,
         stale |-> FALSE, oldest |-> FALSE, call |-> 0, cssAfter |-> {},
         files |-> <<>>, results |-> <<>>, settled |-> 0, would |-> FALSE]

ContextNotLoaded == "context not loaded"

(***************************************************************************)
(* ContentData and ConfigData                                              *)
(***************************************************************************)
\* contentFilesCache.get(ctx) === undefined
NoContent == [present |-> FALSE, fileCssMap |-> [f \in AllFiles |-> {}],
              fileModifiedMap |-> EmptyMap(AllFiles)]
\* { fileCssMap: new Map(), fileModifiedMap: new Map() }
EmptyContent == [NoContent EXCEPT !.present = TRUE]

\* mergeCss(oldCss, css): the union of the two rule sets
mergeCss(oldCss, css) == oldCss \cup css

(***************************************************************************)
(* Builder.checkConfigDeps                                                 *)
(***************************************************************************)
\* !prevModified || !prevModified.has(file) || time > prevModified.get(file)
IsNewer_orEqual(hasPrev, prevModified, file, time) ==
  \/ ~hasPrev
  \/ prevModified[file] = Unset
  \/ time >= prevModified[file]

IsNewer(hasPrev, prevModified, file, time) ==
  \/ ~hasPrev
  \/ prevModified[file] = Unset
  \/ time > prevModified[file]

\* statSync(file, { throwIfNoEntry: false }) is undefined for a file not on disk
checkConfigDeps(configPath, deps) ==
  LET cache == configCache[configPath]
      hasPrev == cache.context # NoCtx /\ cache.hasMap
      prevModified == cache.depsModifiedMap
      onDisk == {file \in deps : depTime[file] # NoFile}
      newModified == [file \in Deps |-> IF file \in onDisk THEN depTime[file] ELSE Unset]
      modified == \E file \in onDisk : IsNewer(hasPrev, prevModified, file, depTime[file])
  IN  IF modified
        THEN [isModified |-> TRUE, modifiedMap |-> newModified, hasMap |-> TRUE]
        ELSE [isModified |-> FALSE, modifiedMap |-> prevModified, hasMap |-> hasPrev]

NoArgs == [configPath |-> "", depsModifiedMap |-> EmptyMap(Deps), hasMap |-> FALSE]

(***************************************************************************)
(* Builder.setup, up to its first suspension.  One setup() runs at a time  *)
(* on a Builder; other operations and other Builders interleave with it.   *)
(***************************************************************************)
\* new Set([...foundDeps, ...(this.context?.dependencies ?? [])])
ConfigDeps(b) ==
  FoundDeps \cup (IF context[b] = NoCtx THEN {} ELSE ctxDependencies[context[b]])

\* what the snapshot says about the tracked dependencies, stated apart from the code:
\* some dependency on disk is newer than the snapshot or absent from it
DepsNewer(configPath, deps) ==
  LET cache == configCache[configPath]
  IN  \E file \in deps :
        /\ depTime[file] # NoFile
        /\ \/ cache.context = NoCtx
           \/ ~cache.hasMap
           \/ cache.depsModifiedMap[file] = Unset
           \/ depTime[file] > cache.depsModifiedMap[file]
\* some dependency on disk has a modification time other than the snapshot's
DepsChanged(configPath, deps) ==
  LET cache == configCache[configPath]
  IN  \E file \in deps :
        /\ depTime[file] # NoFile
        /\ cache.context # NoCtx /\ cache.hasMap
        /\ cache.depsModifiedMap[file] # Unset
        /\ depTime[file] # cache.depsModifiedMap[file]
\* every dependency is on disk with the modification time of the snapshot
DepsSame(configPath, deps) ==
  LET cache == configCache[configPath]
  IN  /\ cache.context # NoCtx /\ cache.hasMap
      /\ \A file \in deps : /\ depTime[file] # NoFile
                            /\ depTime[file] = cache.depsModifiedMap[file]

setup(b, configPath) ==
  LET configDeps == ConfigDeps(b)
      deps == checkConfigDeps(configPath, configDeps)
      cache == configCache[configPath]
      args == [configPath |-> configPath, depsModifiedMap |-> deps.modifiedMap,
               hasMap |-> deps.hasMap]
  IN  /\ setupPc[b] = "idle"
      /\ configDependencies' = [configDependencies EXCEPT ![b] = configDeps]
      /\ hasConfigChanged' = [hasConfigChanged EXCEPT ![b] = deps.isModified]
      /\ lastSetup' = [lastSetup EXCEPT ![b] = IF DepsNewer(configPath, configDeps)
                                                THEN "changed" ELSE "unchanged"]
      /\ IF deps.isModified
           THEN \* await this.setupContext(...)
                /\ setupPc' = [setupPc EXCEPT ![b] = "load-changed"]
                /\ setupArgs' = [setupArgs EXCEPT ![b] = args]
                /\ UNCHANGED <<context, setupOk>>
           ELSE IF cache.context # NoCtx
             THEN \* this.context = cache.context
                  /\ context' = [context EXCEPT ![b] = cache.context]
                  /\ setupOk' = [setupOk EXCEPT ![b] = TRUE]
                  /\ UNCHANGED <<setupPc, setupArgs>>
             ELSE \* no cache: await this.setupContext(...)
                  /\ setupPc' = [setupPc EXCEPT ![b] = "load-first"]
                  /\ setupArgs' = [setupArgs EXCEPT ![b] = args]
                  /\ UNCHANGED <<context, setupOk>>
      /\ ev' = [NoEv EXCEPT !.op = "setup", !.b = b,
                            !.modified = deps.isModified,
                            !.stale = DepsNewer(configPath, configDeps),
                            !.outcome = IF DepsChanged(configPath, configDeps) THEN "changed"
                                        ELSE IF DepsSame(configPath, configDeps) THEN "same"
                                        ELSE "other",
                            !.loaded = (cache.context # NoCtx)]
      /\ UNCHANGED <<fileTime, fileContent, depTime, scope, touches, depTouches, configCache,
                     contentFilesCache, ctxDependencies, nCtx, queue, activeCount,
                     hasEmitted, calls, emitCalls, failedAt, writtenBy,
                 extractedOn, hvars>>

(***************************************************************************)
(* Builder.setupContext: the config loader returns a fresh context         *)
(***************************************************************************)
setupContext(b, dependencies) ==
  LET ctx == nCtx + 1
      args == setupArgs[b]
  IN  /\ setupPc[b] \in {"load-changed", "load-first"}
      /\ nCtx < MaxCtx
      /\ nCtx' = ctx
      /\ ctxDependencies' = [ctxDependencies EXCEPT ![ctx] = dependencies]
      /\ context' = [context EXCEPT ![b] = ctx]
      /\ configCache' = [configCache EXCEPT ![args.configPath] =
                           [context |-> ctx, deps |-> dependencies,
                            depsModifiedMap |-> args.depsModifiedMap,
                            hasMap |-> args.hasMap]]
      /\ contentFilesCache' = [contentFilesCache EXCEPT ![ctx] = EmptyContent]
      /\ IF setupPc[b] = "load-changed"
           THEN \* const ctx = this.getContextOrThrow(); await ctx.hooks.callHook(...)
                /\ setupPc' = [setupPc EXCEPT ![b] = "hook"]
                /\ UNCHANGED <<setupArgs, setupOk>>
           ELSE \* setup() resumes from its await in a later turn, and returns
                /\ setupPc' = [setupPc EXCEPT ![b] = "return"]
                /\ UNCHANGED <<setupArgs, setupOk>>
      /\ ev' = [NoEv EXCEPT !.op = "setupContext", !.b = b, !.loaded = TRUE]
      /\ UNCHANGED <<fileTime, fileContent, depTime, scope, touches, depTouches, queue, activeCount,
                     hasEmitted, hasConfigChanged, configDependencies, calls, lastSetup,
                     emitCalls, failedAt, writtenBy,
                 extractedOn, hvars>>

\* loadConfigAndCreateContext rejects, or the config:change hook does: setup() rejects
setupFails(b) ==
  /\ setupPc[b] \in {"load-changed", "load-first", "hook"}
  /\ setupPc' = [setupPc EXCEPT ![b] = "idle"]
  /\ setupArgs' = [setupArgs EXCEPT ![b] = NoArgs]
  /\ ev' = [NoEv EXCEPT !.op = "setupFails", !.b = b, !.error = "rejected"]
  /\ UNCHANGED <<fileTime, fileContent, depTime, scope, touches, depTouches, configCache,
                 contentFilesCache, ctxDependencies, nCtx, queue, activeCount, context,
                 hasEmitted, hasConfigChanged, configDependencies, calls, setupOk,
                 lastSetup, emitCalls, failedAt, writtenBy,
                 extractedOn, hvars>>

\* setup() resumes from its last await and returns.  After the hook:
\* const cache = configCache.get(configPath); this.context = cache.context.
\* After the setupContext of a first load nothing is left to do.
setupAfterHook(b) ==
  LET cache == configCache[setupArgs[b].configPath]
  IN  /\ setupPc[b] \in {"hook", "return"}
      /\ context' = IF setupPc[b] = "hook" THEN [context EXCEPT ![b] = cache.context]
                    ELSE context
      /\ setupPc' = [setupPc EXCEPT ![b] = "idle"]
      /\ setupArgs' = [setupArgs EXCEPT ![b] = NoArgs]
      /\ setupOk' = [setupOk EXCEPT ![b] = TRUE]
      /\ ev' = [NoEv EXCEPT !.op = "setupDone", !.b = b]
      /\ UNCHANGED <<fileTime, fileContent, depTime, scope, touches, depTouches, configCache,
                     contentFilesCache, ctxDependencies, nCtx, queue, activeCount,
                     hasEmitted, hasConfigChanged, configDependencies, calls,
                     lastSetup, emitCalls, failedAt, writtenBy,
                 extractedOn, hvars>>

(***************************************************************************)
(* Builder.extractFile                                                     *)
(***************************************************************************)
\* the external extractor: what it makes of the file as it is now
extractor(ctx, file) == fileContent[file]

\* this.fileModifiedMap.has(file) && mtime === this.fileModifiedMap.get(file)
isUnchanged_notNewer(fileModifiedMap, file, mtime) ==
  fileModifiedMap[file] # Unset /\ mtime >= fileModifiedMap[file]

isUnchanged(fileModifiedMap, file, mtime) ==
  fileModifiedMap[file] # Unset /\ mtime = fileModifiedMap[file]

\* a variant that keeps one fragment for all the files, the one written last
writeFileCss_unkeyed(data, file, css) ==
  [data EXCEPT !.fileCssMap = [f \in AllFiles |-> css]]

\* writeFileCss: this.fileCssMap.set(file, mergeCss(this.fileCssMap.get(file) ?? '', css))
writeFileCss(data, file, css) ==
  [data EXCEPT !.fileCssMap[file] = mergeCss(@, css)]

\* a variant that records the modification time before the extractor has answered
afterExtract_recordFirst(data, file, mtime, css) ==
  IF css.throws THEN [outcome |-> "rejected",
                      data |-> [data EXCEPT !.fileModifiedMap[file] = mtime]]
  ELSE IF css.css = {} THEN [outcome |-> "empty", data |-> data]
  ELSE [outcome |-> "css",
        data |-> writeFileCss([data EXCEPT !.fileModifiedMap[file] = mtime], file, css.css)]

\* const css = extractFile(ctx, file); if (!css) return;
\* this.fileModifiedMap.set(file, mtime); this.writeFileCss(file, css); return css
afterExtract(data, file, mtime, css) ==
  IF css.throws THEN [outcome |-> "rejected", data |-> data]
  ELSE IF css.css = {} THEN [outcome |-> "empty", data |-> data]
  ELSE [outcome |-> "css",
        data |-> writeFileCss([data EXCEPT !.fileModifiedMap[file] = mtime], file, css.css)]

\* the body of extractFile(ctx, file) on Builder b: it has no await, so it runs in
\* one step.  The maps are those of this.context as it is now, not of ctx.
extractFile(b, ctx, file) ==
  LET data == contentFilesCache[context[b]]
      mtime == fileTime[file]
  IN  IF isUnchanged(data.fileModifiedMap, file, mtime)
        THEN [outcome |-> "unchanged", invoked |-> FALSE, data |-> data]
        ELSE LET r == afterExtract(data, file, mtime, extractor(ctx, file))
             IN  [outcome |-> r.outcome, invoked |-> TRUE, data |-> r.data]

(***************************************************************************)
(* Builder.extract and the admission gate `limit`                          *)
(***************************************************************************)
\* ctx.getFiles(): the files of S in listing order
RECURSIVE FilesOf(_, _)
FilesOf(S, i) ==
  IF i > Len(FileOrder) THEN <<>>
  ELSE (IF FileOrder[i] \in S THEN <<FileOrder[i]>> ELSE <<>>) \o FilesOf(S, i + 1)

Tasks(c, files) == [i \in 1..Len(files) |-> [call |-> c, file |-> files[i]]]

\* extract(): every file is submitted to `limit` at once, then the call awaits
\* Promise.allSettled.  S is what ctx.getFiles() reports.
extract(b, S, cap) ==
  /\ Len(calls) < cap
  /\ IF context[b] = NoCtx
       THEN \* getContextOrThrow throws
            /\ ev' = [NoEv EXCEPT !.op = "extract", !.b = b, !.ready = setupOk[b],
                                  !.error = ContextNotLoaded]
            /\ UNCHANGED <<calls, queue, extractedOn>>
       ELSE LET c == Len(calls) + 1
                files == FilesOf(S, 1)
            IN  /\ calls' = Append(calls, [b |-> b, ctx |-> context[b], files |-> files,
                                           results |-> <<>>, settled |-> 0,
                                           returned |-> FALSE,
                                           first |-> context[b] \notin extractedOn])
                /\ queue' = queue \o Tasks(c, files)
                /\ extractedOn' = extractedOn \cup {context[b]}
                /\ ev' = [NoEv EXCEPT !.op = "extract", !.b = b, !.ready = setupOk[b],
                                      !.call = c]
  /\ UNCHANGED <<fileTime, fileContent, depTime, scope, touches, depTouches, configCache,
                 contentFilesCache, ctxDependencies, nCtx, activeCount, context,
                 hasEmitted, hasConfigChanged, configDependencies, setupPc, setupArgs,
                 setupOk, lastSetup, emitCalls, failedAt, writtenBy, hvars>>

\* the gate lets a task in while fewer than 20 are in flight
HasRoom_offByOne == activeCount <= Limit

HasRoom == activeCount < Limit

\* the task the gate takes next: the oldest one waiting
NextTask == 1

Without(q, i) == SubSeq(q, 1, i - 1) \o SubSeq(q, i + 1, Len(q))

\* `limit` starts a waiting task (limitRun: the oldest): extractFile runs to its end,
\* the task stays in flight until the gate has seen its promise settle
limitRunAt(n) ==
  /\ n \in 1..Len(queue)
  /\ HasRoom
  /\ LET t == queue[n]
         c == t.call
         b == calls[c].b
         cur == context[b]
         r == extractFile(b, calls[c].ctx, t.file)
     IN  /\ queue' = Without(queue, n)
         /\ activeCount' = activeCount + 1
         /\ contentFilesCache' = [contentFilesCache EXCEPT ![cur] = r.data]
         /\ calls' = [calls EXCEPT ![c].results = Append(@, r.outcome)]
         /\ failedAt' = [failedAt EXCEPT ![cur][t.file] =
                           IF r.outcome = "rejected" THEN fileTime[t.file]
                           ELSE IF r.invoked THEN Unset ELSE @]
         /\ writtenBy' = [writtenBy EXCEPT ![cur][t.file] =
                            IF r.outcome = "css" THEN @ \cup {calls[c].ctx} ELSE @]
         /\ ev' = [NoEv EXCEPT !.op = "extractFile", !.b = b, !.call = c,
                               !.file = t.file, !.mtime = fileTime[t.file],
                               !.recorded = contentFilesCache[cur].fileModifiedMap[t.file],
                               !.recordedAfter = r.data.fileModifiedMap[t.file],
                               !.failed = failedAt[cur][t.file],
                               !.invoked = r.invoked, !.outcome = r.outcome,
                               !.oldest = (t = queue[1]),
                               !.cssAfter = r.data.fileCssMap[t.file]]
  /\ UNCHANGED <<fileTime, fileContent, depTime, scope, touches, depTouches, configCache,
                 ctxDependencies, nCtx, context, hasEmitted, hasConfigChanged,
                 configDependencies, setupPc, setupArgs, setupOk, lastSetup,
                 emitCalls, extractedOn, hvars>>

limitRun == limitRunAt(NextTask)

\* tasks of call c that are in flight
InFlight(c) == Len(calls[c].results) - calls[c].settled

\* the gate sees a task of call c settle (in any order) and frees its place
limitNext(c) ==
  /\ InFlight(c) > 0
  /\ calls' = [calls EXCEPT ![c].settled = @ + 1]
  /\ activeCount' = activeCount - 1
  /\ ev' = [NoEv EXCEPT !.op = "settle", !.call = c]
  /\ UNCHANGED <<fileTime, fileContent, depTime, scope, touches, depTouches, configCache,
                 contentFilesCache, ctxDependencies, nCtx, queue, context, hasEmitted,
                 hasConfigChanged, configDependencies, setupPc, setupArgs, setupOk,
                 lastSetup, emitCalls, failedAt, writtenBy,
                 extractedOn, hvars>>

\* Promise.all would answer as soon as one task has been rejected
allSettled_all(c) ==
  \/ calls[c].settled = Len(calls[c].files)
  \/ calls[c].settled > 0 /\ \E i \in 1..Len(calls[c].results) : calls[c].results[i] = "rejected"

\* await Promise.allSettled(promises)
allSettled(c) == calls[c].settled = Len(calls[c].files)

\* a call that has returned: nothing of it is left but its place in the count
Returned == [b |-> "", ctx |-> NoCtx, files |-> <<>>, results |-> <<>>, settled |-> 0,
             returned |-> TRUE, first |-> FALSE]

\* extract() returns: allSettled never rejects
extractReturns(c) ==
  /\ ~calls[c].returned
  /\ allSettled(c)
  /\ calls' = [calls EXCEPT ![c] = Returned]
  /\ ev' = [NoEv EXCEPT !.op = "extractReturns", !.b = calls[c].b, !.call = c,
                        !.files = calls[c].files, !.results = calls[c].results,
                        !.settled = calls[c].settled]
  /\ UNCHANGED <<fileTime, fileContent, depTime, scope, touches, depTouches, configCache,
                 contentFilesCache, ctxDependencies, nCtx, queue, activeCount, context,
                 hasEmitted, hasConfigChanged, configDependencies, setupPc, setupArgs,
                 setupOk, lastSetup, emitCalls, failedAt, writtenBy,
                 extractedOn, hvars>>

(***************************************************************************)
(* Builder.emit, toString, write, registerDependency                       *)
(***************************************************************************)
ShouldEmit_noDebounce(b) == hasConfigChanged[b]

\* if (this.hasEmitted && this.hasConfigChanged)
ShouldEmit(b) == hasEmitted[b] /\ hasConfigChanged[b]

Saturate(n) == IF n >= 2 THEN 2 ELSE n + 1

emit(b) ==
  /\ IF ShouldEmit(b) /\ context[b] = NoCtx
       THEN \* emitArtifacts(this.getContextOrThrow()) throws before hasEmitted is set
            /\ ev' = [NoEv EXCEPT !.op = "emit", !.b = b, !.ready = setupOk[b],
                                  !.prior = emitCalls, !.would = TRUE,
                                  !.error = ContextNotLoaded]
            /\ UNCHANGED hasEmitted
       ELSE /\ ev' = [NoEv EXCEPT !.op = "emit", !.b = b, !.ready = setupOk[b],
                                  !.prior = emitCalls, !.would = ShouldEmit(b),
                                  !.emitted = ShouldEmit(b)]
            /\ hasEmitted' = [hasEmitted EXCEPT ![b] = TRUE]
  /\ emitCalls' = Saturate(emitCalls)
  /\ UNCHANGED <<fileTime, fileContent, depTime, scope, touches, depTouches, configCache,
                 contentFilesCache, ctxDependencies, nCtx, queue, activeCount, context,
                 hasConfigChanged, configDependencies, setupPc, setupArgs, calls,
                 setupOk, lastSetup, failedAt, writtenBy,
                 extractedOn, hvars>>

\* ctx.getCss({ files: Array.from(this.fileCssMap.values()) }): the rules of all fragments
getCss(data) == UNION {data.fileCssMap[f] : f \in AllFiles}

toString(b) ==
  /\ ev' = IF context[b] = NoCtx
             THEN [NoEv EXCEPT !.op = "toString", !.b = b, !.ready = setupOk[b],
                               !.error = ContextNotLoaded]
             ELSE [NoEv EXCEPT !.op = "toString", !.b = b, !.ready = setupOk[b],
                               !.cssAfter = getCss(contentFilesCache[context[b]])]
  /\ UNCHANGED <<fileTime, fileContent, depTime, scope, touches, depTouches, configCache,
                 contentFilesCache, ctxDependencies, nCtx, queue, activeCount, context,
                 hasEmitted, hasConfigChanged, configDependencies, setupPc, setupArgs,
                 calls, setupOk, lastSetup, emitCalls, failedAt, writtenBy,
                 extractedOn, hvars>>

\* write(root): root.toString(); root.removeAll(); root.append(optimizeCss(... this.toString()))
\* the root handed in holds the host's CSS; removeAll() runs before this.toString()
write(b) ==
  /\ ev' = IF context[b] = NoCtx
             THEN [NoEv EXCEPT !.op = "write", !.b = b, !.ready = setupOk[b],
                               !.root = "emptied", !.error = ContextNotLoaded]
             ELSE [NoEv EXCEPT !.op = "write", !.b = b, !.ready = setupOk[b],
                               !.root = "rewritten",
                               !.cssAfter = getCss(contentFilesCache[context[b]])]
  /\ UNCHANGED <<fileTime, fileContent, depTime, scope, touches, depTouches, configCache,
                 contentFilesCache, ctxDependencies, nCtx, queue, activeCount, context,
                 hasEmitted, hasConfigChanged, configDependencies, setupPc, setupArgs,
                 calls, setupOk, lastSetup, emitCalls, failedAt, writtenBy,
                 extractedOn, hvars>>

registerDependency(b) ==
  /\ ev' = IF context[b] = NoCtx
             THEN [NoEv EXCEPT !.op = "registerDependency", !.b = b, !.ready = setupOk[b],
                               !.error = ContextNotLoaded]
             ELSE [NoEv EXCEPT !.op = "registerDependency", !.b = b, !.ready = setupOk[b],
                               !.outcome = "registered"]
  /\ UNCHANGED <<fileTime, fileContent, depTime, scope, touches, depTouches, configCache,
                 contentFilesCache, ctxDependencies, nCtx, queue, activeCount, context,
                 hasEmitted, hasConfigChanged, configDependencies, setupPc, setupArgs,
                 calls, setupOk, lastSetup, emitCalls, failedAt, writtenBy,
                 extractedOn, hvars>>

(***************************************************************************)
(* The file system changes under the builder                               *)
(***************************************************************************)
\* a source file is written: it gets another modification time, earlier or later,
\* and any content
touchFile(file, time, content) ==
  /\ touches < MaxTouch
  /\ file \in scope
  /\ time # fileTime[file]
  /\ touches' = touches + 1
  /\ fileTime' = [fileTime EXCEPT ![file] = time]
  /\ fileContent' = [fileContent EXCEPT ![file] = content]
  /\ ev' = [NoEv EXCEPT !.op = "touchFile", !.file = file]
  /\ UNCHANGED <<depTime, scope, depTouches, configCache, contentFilesCache,
                 ctxDependencies, nCtx, queue, activeCount, context, hasEmitted, hasConfigChanged,
                 configDependencies, setupPc, setupArgs, calls, setupOk, lastSetup,
                 emitCalls, failedAt, writtenBy,
                 extractedOn, hvars>>

\* a configuration dependency is written (any modification time), or deleted
touchDep(file, time) ==
  /\ depTouches < MaxDepTouch
  /\ time # depTime[file]
  /\ depTouches' = depTouches + 1
  /\ depTime' = [depTime EXCEPT ![file] = time]
  /\ ev' = [NoEv EXCEPT !.op = "touchDep", !.file = file]
  /\ UNCHANGED <<fileTime, fileContent, scope, touches, configCache, contentFilesCache,
                 ctxDependencies, nCtx, queue, activeCount, context, hasEmitted,
                 hasConfigChanged, configDependencies, setupPc, setupArgs, calls,
                 setupOk, lastSetup, emitCalls, failedAt, writtenBy,
                 extractedOn, hvars>>

(***************************************************************************)
(* The HashFactory                                                         *)
(***************************************************************************)
separator == "]___["
conditionSeparator == "<___>"

\* A style object is the sequence of its entries in key order.  An entry has a
\* key k and a value: a string ("str"), a number ("num", v its decimal digits),
\* undefined ("undef"), an object ("obj", kids its entries) or an array ("arr",
\* kids its elements, their keys unused).
Str(k, v) == [k |-> k, t |-> "str", v |-> v, kids |-> <<>>]
Num(k, v) == [k |-> k, t |-> "num", v |-> v, kids |-> <<>>]
Undef(k) == [k |-> k, t |-> "undef", v |-> "", kids |-> <<>>]
Obj(k, kids) == [k |-> k, t |-> "obj", v |-> "", kids |-> kids]
Arr(k, kids) == [k |-> k, t |-> "arr", v |-> "", kids |-> kids]

isObjectOrArray(e) == e.t \in {"obj", "arr"}

\* context.conditions.isCondition of the collector context of the model
ConditionKeys == {"base", "sm", "md", "lg", "_hover", "_dark", "_groupHover"}
isCondition(key) == key \in ConditionKeys

\* context.conditions.breakpoints.keys
breakpoints == <<"base", "sm", "md", "lg">>

\* context.utility.resolveShorthand: { mx: 4 } => { marginX: 4 }
resolveShorthand(key) == IF key = "mx" THEN "marginX" ELSE key

RECURSIVE join(_, _)
\* parts.join(sep)
join(parts, sep) ==
  IF parts = <<>> THEN ""
  ELSE IF Len(parts) = 1 THEN parts[1]
  ELSE parts[1] \o sep \o join(Tail(parts), sep)

RECURSIVE indexOfKey(_, _, _)
\* the first index >= i of an entry of obj with key k, 0 if there is none
indexOfKey(obj, k, i) ==
  IF i > Len(obj) THEN 0
  ELSE IF obj[i].k = k THEN i
  ELSE indexOfKey(obj, k, i + 1)

\* obj[e.k] = e: an existing key keeps its place, a new key goes last
setKey(obj, e) ==
  LET i == indexOfKey(obj, e.k, 1)
  IN IF i = 0 THEN Append(obj, e) ELSE [obj EXCEPT ![i] = e]

RECURSIVE assign(_, _)
\* Object.assign({}, a, b) for a given as its first argument
assign(a, b) == IF b = <<>> THEN a ELSE assign(setKey(a, Head(b)), Tail(b))

RECURSIVE toResponsiveObject(_, _)
\* the array elements from index i on, keyed by breakpoint; null and undefined
\* elements are left out
toResponsiveObject(values, i) ==
  IF i > Len(values) \/ i > Len(breakpoints) THEN <<>>
  ELSE (IF values[i].t = "undef" THEN <<>>
        ELSE <<[values[i] EXCEPT !.k = breakpoints[i]]>>)
       \o toResponsiveObject(values, i + 1)

RECURSIVE normalizeStyleObject(_)
\* shorthand keys resolved and arrays turned into responsive objects, at every level
normalizeStyleObject(obj) ==
  IF obj = <<>> THEN <<>>
  ELSE LET e == obj[Len(obj)]
           key == resolveShorthand(e.k)
           value == IF e.t = "arr" THEN Obj(key, toResponsiveObject(e.kids, 1))
                    ELSE IF e.t = "obj" THEN Obj(key, normalizeStyleObject(e.kids))
                    ELSE [e EXCEPT !.k = key]
       IN setKey(normalizeStyleObject(SubSeq(obj, 1, Len(obj) - 1)), value)

RECURSIVE walk(_, _, _)
\* the visits of the entries of obj, found at the given depth under path, parents
\* before children, siblings in key order
walk(obj, path, depth) ==
  IF obj = <<>> THEN <<>>
  ELSE LET e == Head(obj)
           p == Append(path, e.k)
       IN <<[key |-> e.k, value |-> e, path |-> p, depth |-> depth]>>
          \o (IF isObjectOrArray(e) THEN walk(e.kids, p, depth + 1) ELSE <<>>)
          \o walk(Tail(obj), path, depth)

\* traverse(obj, callback): the sequence of visits the callback is called with
traverse(obj) == walk(obj, <<>>, 0)

\* a StyleEntry; "" stands for a field that is not given
StyleEntry(prop, value, cond, recipe, slot) ==
  [prop |-> prop, value |-> value, cond |-> cond, recipe |-> recipe,
   layer |-> "", slot |-> slot]

NoBase == [recipe |-> "", slot |-> ""]

\* a variant that leaves the condition out of the hash
hashStyleEntry_noCond(entry) ==
  entry.prop \o separator \o "value:" \o entry.value
  \o (IF entry.recipe # "" THEN separator \o "recipe:" \o entry.recipe ELSE "")
  \o (IF entry.slot # "" THEN separator \o "slot:" \o entry.slot ELSE "")

\* a variant that leaves the slot out of the hash
hashStyleEntry_noSlot(entry) ==
  entry.prop \o separator \o "value:" \o entry.value
  \o (IF entry.cond # "" THEN separator \o "cond:" \o entry.cond ELSE "")
  \o (IF entry.recipe # "" THEN separator \o "recipe:" \o entry.recipe ELSE "")

hashStyleEntry(entry) ==
  LET parts == <<entry.prop \o separator \o "value:" \o entry.value>>
               \o (IF entry.cond # "" THEN <<"cond:" \o entry.cond>> ELSE <<>>)
               \o (IF entry.recipe # "" THEN <<"recipe:" \o entry.recipe>> ELSE <<>>)
               \o (IF entry.layer # "" THEN <<"layer:" \o entry.layer>> ELSE <<>>)
               \o (IF entry.slot # "" THEN <<"slot:" \o entry.slot>> ELSE <<>>)
  IN join(parts, separator)

\* Paths and conditions are kept as the sequence of their segments and joined with
\* the conditionSeparator where the code needs the string.
\* path.split(conditionSeparator).at(-2) ?? ''
getPreviousCondition(path) ==
  IF Len(path) >= 2 THEN <<path[Len(path) - 1]>> ELSE <<>>

\* parts.filter((c) => c !== 'base')
filterBaseConditions(parts) == SelectSeq(parts, LAMBDA c : c # "base")

\* a variant that returns the condition as it is
getResolvedCondition_raw(cond) == cond

getResolvedCondition(cond) ==
  IF cond = <<>> THEN <<>>
  ELSE LET parts == cond
           first == parts[1]
           filtered == filterBaseConditions(parts)
           relevantParts == IF first # "" /\ ~isCondition(first)
                            THEN (IF filtered = <<>> THEN <<>> ELSE Tail(filtered))
                            ELSE filtered
       IN IF Len(parts) # Len(relevantParts) THEN relevantParts ELSE cond

RECURSIVE removeSegment(_, _, _)
\* path without its first segment from index i on that is prevProp
removeSegment(path, prevProp, i) ==
  IF i > Len(path) THEN path
  ELSE IF path[i] = prevProp
       THEN SubSeq(path, 1, i - 1) \o SubSeq(path, i + 1, Len(path))
       ELSE removeSegment(path, prevProp, i + 1)

\* path.replace(conditionSeparator + prevProp, ''): the first separator followed by
\* prevProp goes; with an empty prevProp the first two segments run together.  (No
\* key of the model is the beginning of another key of the same object.)
replacePrevProp(path, prevProp) ==
  IF prevProp = ""
  THEN (IF Len(path) >= 2
        THEN <<path[1] \o path[2]>> \o SubSeq(path, 3, Len(path))
        ELSE path)
  ELSE removeSegment(path, prevProp, 2)

\* the variables of hashStyleObject the callback closes over; entries lists the
\* StyleEntry objects handed to hashStyleEntry so far, each with the path of its leaf
WalkStart(set) ==
  [isInCondition |-> FALSE, isFinalCondition |-> FALSE, cond |-> <<>>, prop |-> "",
   prevProp |-> "", prevDepth |-> 0, set |-> set, entries |-> <<>>]

\* one call of the traverse callback
callback(s, n, baseEntry) ==
  IF n.value.t = "undef" THEN s
  ELSE
    LET value == n.value
        s1 == [s EXCEPT !.isFinalCondition = FALSE, !.prop = n.key]
    IN IF isCondition(n.key) /\ isObjectOrArray(value)
       THEN [s1 EXCEPT !.isInCondition = TRUE, !.cond = n.path, !.prevDepth = n.depth]
       ELSE IF ~isCondition(n.key) /\ isObjectOrArray(value)
       THEN [s1 EXCEPT !.prevProp = s1.prop, !.prevDepth = n.depth]
       ELSE
         LET s2 == IF isCondition(n.key)
                   THEN [s1 EXCEPT
                           !.cond = IF s1.isInCondition /\ s1.cond # <<>>
                                    THEN replacePrevProp(n.path, s1.prevProp)
                                    ELSE <<n.key>>,
                           !.prop = s1.prevProp,
                           !.isFinalCondition = TRUE]
                   ELSE s1
             s3 == IF ~s2.isFinalCondition /\ s2.isInCondition /\ n.path = <<s2.prop>>
                   THEN [s2 EXCEPT !.isInCondition = FALSE, !.cond = <<>>]
                   ELSE IF n.depth # s2.prevDepth /\ ~s2.isInCondition
                           /\ ~s2.isFinalCondition
                   THEN [s2 EXCEPT !.cond = getPreviousCondition(n.path),
                                   !.isInCondition = getPreviousCondition(n.path) # <<>>]
                   ELSE s2
             resolvedCondition == getResolvedCondition(s3.cond)
             entry == StyleEntry(s3.prop, value.v,
                                 join(resolvedCondition, conditionSeparator),
                                 baseEntry.recipe, baseEntry.slot)
             hashed == hashStyleEntry(entry)
         IN [s3 EXCEPT !.set = @ \cup {hashed}, !.prevProp = s3.prop,
                       !.prevDepth = n.depth,
                       !.entries = Append(@, [path |-> n.path, entry |-> entry])]

RECURSIVE runCallback(_, _, _)
\* the callback called with each visit in turn
runCallback(s, visits, baseEntry) ==
  IF visits = <<>> THEN s
  ELSE runCallback(callback(s, Head(visits), baseEntry), Tail(visits), baseEntry)

\* hashStyleObject(set, obj, baseEntry): the set with the hashes of obj added
hashStyleObject(set, obj, baseEntry) ==
  runCallback(WalkStart(set), traverse(normalizeStyleObject(obj)), baseEntry).set

\* the StyleEntry objects hashStyleObject(set, obj, baseEntry) hashes, in the order of
\* the walk
styleEntries(obj, baseEntry) ==
  runCallback(WalkStart({}), traverse(normalizeStyleObject(obj)), baseEntry).entries

\* The recipes of the collector context: context.recipes.getConfig(recipeName).
\* "button" and "badge" are recipes, "card" is a slot recipe, no other name is known.
NoConfig ==
  [known |-> FALSE, slots |-> <<>>, base |-> [declared |-> FALSE, styles |-> <<>>],
   defaultVariants |-> <<>>, compoundVariants |-> [declared |-> FALSE, list |-> <<>>]]

getConfig(recipeName) ==
  CASE recipeName = "button" ->
         [known |-> TRUE, slots |-> <<>>,
          base |-> [declared |-> TRUE,
                    styles |-> <<Str("display", "flex"),
                                 Obj("_hover", <<Str("color", "red")>>)>>],
          defaultVariants |-> <<Str("size", "md")>>,
          compoundVariants |->
            [declared |-> TRUE,
             list |-> <<[css |-> <<Str("color", "blue")>>],
                        [css |-> <<Obj("mx", <<Num("base", "1"), Num("sm", "2")>>)>>]>>]]
    [] recipeName = "badge" ->
         [known |-> TRUE, slots |-> <<>>,
          base |-> [declared |-> FALSE, styles |-> <<>>],
          defaultVariants |-> <<>>,
          compoundVariants |-> [declared |-> FALSE, list |-> <<>>]]
    [] recipeName = "card" ->
         [known |-> TRUE, slots |-> <<"root", "label">>,
          base |-> [declared |-> TRUE,
                    styles |-> <<Obj("root", <<Num("p", "4")>>)>>],
          defaultVariants |-> <<Str("size", "md")>>,
          compoundVariants |->
            [declared |-> TRUE,
             list |-> <<[css |-> <<Obj("root", <<Str("color", "red")>>),
                                   Undef("label")>>]>>]]
    [] OTHER -> NoConfig

Recipes == {"button", "badge"}
SlotRecipes == {"card"}
UnknownRecipes == {"ghost"}

\* context.recipes.getSlotKey(recipeName, slot)
getSlotKey(recipeName, slot) == recipeName \o ":" \o slot

\* the variant selections the calls are made with
Selections ==
  { <<>>,
    <<Str("size", "sm")>>,
    <<Obj("size", <<Str("base", "sm"), Str("md", "lg")>>)>> }

\* the style objects processAtomic is called with
StylePool ==
  { <<Num("p", "4"), Obj("_hover", <<Num("p", "8")>>)>>,
    <<Obj("mx", <<Num("base", "1"), Num("sm", "2"), Num("lg", "3")>>)>>,
    <<Obj("_hover", <<Obj("_dark", <<Num("p", "1")>>), Num("m", "2")>>)>>,
    <<Arr("mx", <<Num("", "1"), Undef(""), Num("", "3")>>), Undef("color")>> }

\* new Map()
EmptyRegistry == [k \in {} |-> {}]

\* new HashFactory(context)
EmptyFactory ==
  [atomic |-> {}, compound_variants |-> {}, recipes |-> EmptyRegistry,
   recipes_base |-> EmptyRegistry, recipes_slots |-> EmptyRegistry,
   recipes_slots_base |-> EmptyRegistry]

\* history of one instance: its process* calls, those of them made with a recipe name
\* the context does not know, the calls per known recipe name, and how often the base
\* styles (per registry key) and the compound variants (per recipe name) were atomized
NoRuns == [calls |-> 0, unknown |-> 0, recipe |-> EmptyRegistry, base |-> EmptyRegistry,
           compound |-> EmptyRegistry]

\* the history after one more call for the recipe name
called(r, recipeName) ==
  [r EXCEPT !.calls = @ + 1,
            !.unknown = IF recipeName \in UnknownRecipes THEN @ + 1 ELSE @]

count(map, key) == IF key \in DOMAIN map THEN map[key] ELSE 0
counted(map, key) == (key :> count(map, key) + 1) @@ map

RECURSIVE countedAll(_, _)
countedAll(map, keys) ==
  IF keys = <<>> THEN map ELSE countedAll(counted(map, Head(keys)), Tail(keys))

RECURSIVE HashCalls(_)
\* the process* calls made on the first n instances
HashCalls(n) == IF n = 0 THEN 0 ELSE runs[n].calls + HashCalls(n - 1)

HashBudget == HashCalls(Len(runs)) < MaxHashOps

\* a variant that takes every name for a known one
found_any(config) == TRUE

\* if (!config) return
found(config) == config.known

\* getOrCreateSet(map, key): the map, with an empty set under key if it had none
getOrCreateSet(map, key) == IF key \in DOMAIN map THEN map ELSE (key :> {}) @@ map

\* a variant that forgets the recipes registry
isEmpty_noRecipes(h) ==
  /\ h.atomic = {}
  /\ DOMAIN h.recipes_slots = {}
  /\ h.compound_variants = {}
  /\ DOMAIN h.recipes_base = {}
  /\ DOMAIN h.recipes_slots_base = {}

\* isEmpty(): the size of each of the two sets and of the four maps is zero
isEmpty(h) ==
  /\ h.atomic = {}
  /\ DOMAIN h.recipes = {}
  /\ DOMAIN h.recipes_slots = {}
  /\ h.compound_variants = {}
  /\ DOMAIN h.recipes_base = {}
  /\ DOMAIN h.recipes_slots_base = {}

\* hashStyleObject(getOrCreateSet(map, key), obj, baseEntry)
hashInto(map, key, obj, baseEntry) ==
  [getOrCreateSet(map, key) EXCEPT ![key] = hashStyleObject(@, obj, baseEntry)]

RECURSIVE atomizeAll(_, _)
\* processAtomic for each style object of the list in turn
atomizeAll(atomic, list) ==
  IF list = <<>> THEN atomic
  ELSE atomizeAll(hashStyleObject(atomic, Head(list), NoBase), Tail(list))

baseNeeded_declared(h, config, recipeName) == config.base.declared

\* a variant whose guard tests the wrong registry
baseNeeded_wrongGuard(h, config, recipeName) ==
  config.base.declared /\ recipeName \in h.compound_variants

\* config.base && !this.recipes_base.has(recipeName)
baseNeeded(h, config, recipeName) ==
  config.base.declared /\ recipeName \notin DOMAIN h.recipes_base

compoundNeeded_declared(h, config, recipeName) == config.compoundVariants.declared

\* config.compoundVariants && !this.compound_variants.has(recipeName)
compoundNeeded(h, config, recipeName) ==
  config.compoundVariants.declared /\ recipeName \notin h.compound_variants

\* config.compoundVariants.map((compoundVariant) => compoundVariant.css)
compoundStyles(config) ==
  [n \in 1..Len(config.compoundVariants.list) |-> config.compoundVariants.list[n].css]

RECURSIVE slotValues(_)
\* Object.values(css).map((styles) => styles ?? {})
slotValues(css) ==
  IF css = <<>> THEN <<>>
  ELSE <<IF Head(css).t = "obj" THEN Head(css).kids ELSE <<>>>> \o slotValues(Tail(css))

RECURSIVE slotCompoundStyles(_)
\* the style blocks of the slots of each compound variant of the list
slotCompoundStyles(list) ==
  IF list = <<>> THEN <<>>
  ELSE slotValues(Head(list).css) \o slotCompoundStyles(Tail(list))

\* config.base?.[slot]
slotBaseOf(config, slot) ==
  LET n == IF config.base.declared THEN indexOfKey(config.base.styles, slot, 1) ELSE 0
  IN IF n = 0 \/ config.base.styles[n].t # "obj"
     THEN [declared |-> FALSE, styles |-> <<>>]
     ELSE [declared |-> TRUE, styles |-> config.base.styles[n].kids]

\* slotBase && !this.recipes_slots_base.has(recipeKey)
slotBaseNeeded(h, slotBase, recipeKey) ==
  slotBase.declared /\ recipeKey \notin DOMAIN h.recipes_slots_base

processAtomic(i, styles) ==
  /\ i \in 1..Len(hf)
  /\ HashBudget
  /\ hf' = [hf EXCEPT ![i].atomic = hashStyleObject(@, styles, NoBase)]
  /\ runs' = [runs EXCEPT ![i].calls = @ + 1]
  /\ UNCHANGED bvars

processRecipe(i, recipeName, variants) ==
  /\ i \in 1..Len(hf)
  /\ HashBudget
  /\ LET h == hf[i]
         config == getConfig(recipeName)
         baseEntry == [recipe |-> recipeName, slot |-> ""]
         styles == assign(config.defaultVariants, variants)
         h1 == [h EXCEPT !.recipes = hashInto(@, recipeName, styles, baseEntry)]
         doBase == baseNeeded(h1, config, recipeName)
         h2 == IF doBase
               THEN [h1 EXCEPT !.recipes_base =
                                 hashInto(@, recipeName, config.base.styles, baseEntry)]
               ELSE h1
         doCompound == compoundNeeded(h2, config, recipeName)
         h3 == IF doCompound
               THEN [h2 EXCEPT !.compound_variants = @ \cup {recipeName},
                               !.atomic = atomizeAll(@, compoundStyles(config))]
               ELSE h2
     IN IF ~found(config)
        THEN /\ hf' = hf
             /\ runs' = [runs EXCEPT ![i] = called(@, recipeName)]
        ELSE /\ hf' = [hf EXCEPT ![i] = h3]
             /\ runs' = [runs EXCEPT
                           ![i] = called(@, recipeName),
                           ![i].recipe = counted(@, recipeName),
                           ![i].base = IF doBase THEN counted(@, recipeName) ELSE @,
                           ![i].compound = IF doCompound THEN counted(@, recipeName)
                                           ELSE @]
  /\ UNCHANGED bvars

RECURSIVE forEachSlot(_, _, _, _, _)
\* the body of config.slots.forEach for the given slots in turn: the instance after
\* them, and the registry keys whose base styles were atomized
forEachSlot(acc, config, recipeName, styles, slots) ==
  IF slots = <<>> THEN acc
  ELSE
    LET slot == Head(slots)
        recipeKey == getSlotKey(recipeName, slot)
        baseEntry == [recipe |-> recipeName, slot |-> slot]
        h1 == [acc.h EXCEPT !.recipes_slots = hashInto(@, recipeKey, styles, baseEntry)]
        slotBase == slotBaseOf(config, slot)
        doBase == slotBaseNeeded(h1, slotBase, recipeKey)
        h2 == IF doBase
              THEN [h1 EXCEPT !.recipes_slots_base =
                                hashInto(@, recipeKey, slotBase.styles, baseEntry)]
              ELSE h1
    IN forEachSlot([h |-> h2,
                    based |-> IF doBase THEN Append(acc.based, recipeKey) ELSE acc.based],
                   config, recipeName, styles, Tail(slots))

processSlotRecipe(i, recipeName, variants) ==
  /\ i \in 1..Len(hf)
  /\ HashBudget
  /\ LET h == hf[i]
         config == getConfig(recipeName)
         styles == assign(config.defaultVariants, variants)
         after == forEachSlot([h |-> h, based |-> <<>>], config, recipeName, styles,
                              config.slots)
         doCompound == compoundNeeded(after.h, config, recipeName)
         h3 == IF doCompound
               THEN [after.h EXCEPT
                       !.compound_variants = @ \cup {recipeName},
                       !.atomic = atomizeAll(@, slotCompoundStyles(config.compoundVariants.list))]
               ELSE after.h
     IN IF ~found(config)
        THEN /\ hf' = hf
             /\ runs' = [runs EXCEPT ![i] = called(@, recipeName)]
        ELSE /\ hf' = [hf EXCEPT ![i] = h3]
             /\ runs' = [runs EXCEPT
                           ![i] = called(@, recipeName),
                           ![i].recipe = counted(@, recipeName),
                           ![i].base = countedAll(@, after.based),
                           ![i].compound = IF doCompound THEN counted(@, recipeName)
                                           ELSE @]
  /\ UNCHANGED bvars

\* a variant that hands the registries of the parent to the new instance
fork_clone(i) ==
  /\ i \in 1..Len(hf)
  /\ Len(hf) < MaxFactories
  /\ hf' = Append(hf, hf[i])
  /\ runs' = Append(runs, NoRuns)
  /\ UNCHANGED bvars

\* fork(): a new instance on the same context
fork(i) ==
  /\ i \in 1..Len(hf)
  /\ Len(hf) < MaxFactories
  /\ hf' = Append(hf, EmptyFactory)
  /\ runs' = Append(runs, NoRuns)
  /\ UNCHANGED bvars

\* no style object is under test
NoShape == [kind |-> "any", prop |-> "", conds |-> <<>>, values |-> <<>>,
            blockFirst |-> FALSE]
NoCall == [i |-> 0, op |-> "", name |-> "", arg |-> <<>>]
NoSample == [obj |-> <<>>, other |-> <<>>, hashed |-> 0, first |-> {}, second |-> {},
             reordered |-> {}, shape |-> NoShape, call |-> NoCall, after |-> EmptyFactory,
             entries |-> <<>>]

\* no HashFactory exists while the Builder specifications run
HashIdle == /\ hf = <<>>
            /\ runs = <<>>
            /\ sample = NoSample

(***************************************************************************)
(* Specifications of the Builder                                           *)
(***************************************************************************)
\* a fresh process: nothing cached, no Builder set up, the files of S on disk
BuilderInit(S, content) ==
  /\ scope = S
  /\ fileTime = [f \in AllFiles |-> IF f \in S THEN 1 ELSE NoFile]
  /\ fileContent = [f \in AllFiles |-> IF f \in S THEN content[f] ELSE NoCss]
  /\ depTime = [d \in Deps |-> 1]
  /\ touches = 0
  /\ depTouches = 0
  /\ configCache = [p \in ConfigPaths |-> NoCache]
  /\ contentFilesCache = [c \in Ctxs |-> NoContent]
  /\ ctxDependencies = [c \in Ctxs |-> {}]
  /\ nCtx = 0
  /\ queue = <<>>
  /\ activeCount = 0
  /\ context = [b \in Builders |-> NoCtx]
  /\ hasEmitted = [b \in Builders |-> FALSE]
  /\ hasConfigChanged = [b \in Builders |-> FALSE]
  /\ configDependencies = [b \in Builders |-> {}]
  /\ setupPc = [b \in Builders |-> "idle"]
  /\ setupArgs = [b \in Builders |-> NoArgs]
  /\ calls = <<>>
  /\ setupOk = [b \in Builders |-> FALSE]
  /\ lastSetup = [b \in Builders |-> "never"]
  /\ emitCalls = 0
  /\ failedAt = [c \in Ctxs |-> EmptyMap(AllFiles)]
  /\ writtenBy = [c \in Ctxs |-> [f \in AllFiles |-> {}]]
  /\ extractedOn = {}
  /\ ev = NoEv

Init ==
  /\ BuilderInit(SmallScope, [f \in AllFiles |-> IF f = "f01" THEN Css({"r1"}) ELSE NoCss])
  /\ HashIdle

\* setup() on the Builders of B; D holds what a loaded context may declare as
\* its dependencies
SetupSteps(B, D) ==
  \/ \E b \in B, p \in ConfigPaths : setup(b, p)
  \/ \E b \in B, d \in D : setupContext(b, d)
  \/ \E b \in B : setupFails(b)
  \/ \E b \in B : setupAfterHook(b)

\* the admission gate and the return of extract()
GateSteps ==
  \/ limitRun
  \/ \E c \in 1..Len(calls) : limitNext(c)
  \/ \E c \in 1..Len(calls) : extractReturns(c)

\* no extract() call is under way
Quiet == \A c \in 1..Len(calls) : calls[c].returned

\* one Builder on one context, extract() cycle after cycle, while source files change
Next ==
  \/ SetupSteps(ExtractBuilders, {{}})
  \/ \E b \in ExtractBuilders, S \in ExtractScopes : Quiet /\ extract(b, S, MaxCalls)
  \/ GateSteps
  \/ \E f \in AllFiles, t \in Times, c \in Contents : touchFile(f, t, c)

Spec == Init /\ [][Next]_vars

\* setup() on two Builders while configuration dependencies change
NextConfig ==
  \/ SetupSteps(Builders, SUBSET ExtraDeps)
  \/ \E d \in Deps, t \in Times \cup {NoFile} : touchDep(d, t)

SpecConfig == Init /\ [][NextConfig]_vars

\* every operation of two Builders, extract() calls overlapping; nothing changes on
\* disk and the loaded context declares no dependencies of its own
NextOps ==
  \/ SetupSteps(Builders, {{}})
  \/ \E b \in Builders : extract(b, scope, OpsCalls)
  \/ GateSteps
  \/ \E b \in Builders : emit(b)
  \/ \E b \in Builders : toString(b)
  \/ \E b \in Builders : write(b)
  \/ \E b \in Builders : registerDependency(b)

SpecOps == Init /\ [][NextOps]_vars

\* many files in scope, nothing changes on disk, and both Builders set up on one
\* context (b1's setup() has loaded it, b2's setup() has reused it): the gate fills
InitPool ==
  /\ scope = PoolScope
  /\ fileTime = [f \in AllFiles |-> 1]
  /\ fileContent = [f \in AllFiles |-> Css({"r1"})]
  /\ depTime = [d \in Deps |-> 1]
  /\ touches = 0
  /\ depTouches = 0
  /\ configCache = [p \in ConfigPaths |->
                      [context |-> 1, deps |-> {}, hasMap |-> TRUE,
                       depsModifiedMap |-> [d \in Deps |-> IF d \in FoundDeps THEN 1
                                                           ELSE Unset]]]
  /\ contentFilesCache = [c \in Ctxs |-> IF c = 1 THEN EmptyContent ELSE NoContent]
  /\ ctxDependencies = [c \in Ctxs |-> {}]
  /\ nCtx = 1
  /\ queue = <<>>
  /\ activeCount = 0
  /\ context = [b \in Builders |-> 1]
  /\ hasEmitted = [b \in Builders |-> FALSE]
  /\ hasConfigChanged = [b \in Builders |-> b = "b1"]
  /\ configDependencies = [b \in Builders |-> FoundDeps]
  /\ setupPc = [b \in Builders |-> "idle"]
  /\ setupArgs = [b \in Builders |-> NoArgs]
  /\ calls = <<>>
  /\ setupOk = [b \in Builders |-> TRUE]
  /\ lastSetup = [b \in Builders |-> IF b = "b1" THEN "changed" ELSE "unchanged"]
  /\ emitCalls = 0
  /\ failedAt = [c \in Ctxs |-> EmptyMap(AllFiles)]
  /\ writtenBy = [c \in Ctxs |-> [f \in AllFiles |-> {}]]
  /\ extractedOn = {}
  /\ ev = NoEv
  /\ HashIdle

NextPool ==
  \/ \E b \in Builders : extract(b, scope, PoolCalls)
  \/ GateSteps

SpecPool == InitPool /\ [][NextPool]_vars

\* Two Builders on one context and three files in scope; nothing changes on disk
\* during the calls.  The Content Cache holds an earlier fragment of f01, recorded
\* at time 1; f01 is as it was then or newer, and the extractor throws on a file,
\* finds no style usage in it or returns a fragment of its own for it.  The gate
\* may take the waiting tasks in any order.
OrderScope == {"f01", "f02", "f03"}
OrderContents(f) ==
  [throws |-> Throws, none |-> NoCss, css |-> Css({"rule of " \o f})]
OrderContent ==
  [EmptyContent EXCEPT !.fileModifiedMap["f01"] = 1, !.fileCssMap["f01"] = {"r0"}]

InitOrder ==
  /\ scope = OrderScope
  /\ fileTime \in {[f \in AllFiles |-> IF f = "f01" THEN t
                                       ELSE IF f \in OrderScope THEN 1 ELSE NoFile] :
                     t \in {1, 2}}
  /\ fileContent \in {[f \in AllFiles |-> IF f \in OrderScope
                                              THEN OrderContents(f)[kind[f]] ELSE NoCss] :
                        kind \in [OrderScope -> {"throws", "none", "css"}]}
  /\ depTime = [d \in Deps |-> 1]
  /\ touches = 0
  /\ depTouches = 0
  /\ configCache = [p \in ConfigPaths |->
                      [context |-> 1, deps |-> {}, hasMap |-> TRUE,
                       depsModifiedMap |-> [d \in Deps |-> IF d \in FoundDeps THEN 1
                                                           ELSE Unset]]]
  /\ contentFilesCache = [c \in Ctxs |-> IF c = 1 THEN OrderContent ELSE NoContent]
  /\ ctxDependencies = [c \in Ctxs |-> {}]
  /\ nCtx = 1
  /\ queue = <<>>
  /\ activeCount = 0
  /\ context = [b \in Builders |-> 1]
  /\ hasEmitted = [b \in Builders |-> FALSE]
  /\ hasConfigChanged = [b \in Builders |-> FALSE]
  /\ configDependencies = [b \in Builders |-> FoundDeps]
  /\ setupPc = [b \in Builders |-> "idle"]
  /\ setupArgs = [b \in Builders |-> NoArgs]
  /\ calls = <<>>
  /\ setupOk = [b \in Builders |-> TRUE]
  /\ lastSetup = [b \in Builders |-> "unchanged"]
  /\ emitCalls = 0
  /\ failedAt = [c \in Ctxs |-> EmptyMap(AllFiles)]
  /\ writtenBy = [c \in Ctxs |-> [f \in AllFiles |->
                                    IF c = 1 /\ f = "f01" THEN {1} ELSE {}]]
  /\ extractedOn = {1}
  /\ ev = NoEv
  /\ HashIdle

NextOrder ==
  \/ \E b \in Builders : extract(b, scope, OrderCalls)
  \/ \E n \in 1..Len(queue) : limitRunAt(n)
  \/ \E c \in 1..Len(calls) : limitNext(c)
  \/ \E c \in 1..Len(calls) : extractReturns(c)
  \/ \E b \in Builders : Quiet /\ toString(b)

SpecOrder == InitOrder /\ [][NextOrder]_vars

\* One Builder from a fresh process: setup() and extract() calls in any order and
\* overlapping, while the configuration file changes on disk, so that setup() reloads
\* and replaces the context with extractions of an earlier extract() still waiting.
NextReload ==
  \/ SetupSteps(ExtractBuilders, {{}})
  \/ \E d \in FoundDeps, t \in Times : touchDep(d, t)
  \/ \E b \in ExtractBuilders : extract(b, scope, ReloadCalls)
  \/ GateSteps
  \/ \E b \in ExtractBuilders : toString(b)

SpecReload == Init /\ [][NextReload]_vars

(***************************************************************************)
(* Specification of the HashFactory                                        *)
(***************************************************************************)
InitHash ==
  /\ BuilderInit(SmallScope, [f \in AllFiles |-> IF f = "f01" THEN Css({"r1"}) ELSE NoCss])
  /\ hf = <<EmptyFactory>>
  /\ runs = <<NoRuns>>
  /\ sample = NoSample

NextHash ==
  \/ \E i \in 1..MaxFactories, styles \in StylePool :
       processAtomic(i, styles) /\ UNCHANGED sample
  \/ \E i \in 1..MaxFactories, name \in Recipes \cup UnknownRecipes,
         variants \in Selections :
       processRecipe(i, name, variants) /\ UNCHANGED sample
  \/ \E i \in 1..MaxFactories, name \in SlotRecipes \cup UnknownRecipes,
         variants \in Selections :
       processSlotRecipe(i, name, variants) /\ UNCHANGED sample
  \/ \E i \in 1..MaxFactories : fork(i) /\ UNCHANGED sample

SpecHash == InitHash /\ [][NextHash]_vars

(***************************************************************************)
(* A process* call made twice in a row on one HashFactory, after any       *)
(* earlier calls.                                                          *)
(***************************************************************************)
\* the process* calls with their arguments
CallPool ==
  {[op |-> "processAtomic", name |-> "", arg |-> styles] : styles \in StylePool}
  \cup {[op |-> "processRecipe", name |-> name, arg |-> variants] :
          name \in Recipes \cup UnknownRecipes, variants \in Selections}
  \cup {[op |-> "processSlotRecipe", name |-> name, arg |-> variants] :
          name \in SlotRecipes \cup UnknownRecipes, variants \in Selections}

\* the call c made on instance i
invoke(i, c) ==
  CASE c.op = "processAtomic" -> processAtomic(i, c.arg)
    [] c.op = "processRecipe" -> processRecipe(i, c.name, c.arg)
    [] c.op = "processSlotRecipe" -> processSlotRecipe(i, c.name, c.arg)

\* one call of the sequence: an earlier call ("before"), the call under test made
\* for the first time ("first": the registries after it are kept), or the same call
\* with the same argument made again on the same instance ("again")
callStep(i, c, stage) ==
  /\ sample.hashed = (IF stage = "again" THEN 1 ELSE 0)
  /\ stage = "again" =>
       sample.call = [i |-> i, op |-> c.op, name |-> c.name, arg |-> c.arg]
  /\ invoke(i, c)
  /\ sample' = CASE stage = "before" -> sample
                 [] stage = "first" ->
                      [sample EXCEPT !.hashed = 1,
                                     !.call = [i |-> i, op |-> c.op, name |-> c.name,
                                               arg |-> c.arg],
                                     !.after = hf'[i]]
                 [] stage = "again" -> [sample EXCEPT !.hashed = 2]

NextRepeat ==
  \E i \in 1..Len(hf), c \in CallPool, stage \in {"before", "first", "again"} :
    callStep(i, c, stage)

SpecRepeat == InitHash /\ [][NextRepeat]_vars

(***************************************************************************)
(* hashStyleObject on its own: a style object is hashed into fresh sets,   *)
(* as it is and with its keys in another order.                            *)
(***************************************************************************)
StyleKeys == {"p", "m", "_hover", "_dark", "base"}
StyleValues == {"1", "2"}

keysOf(obj) == {obj[n].k : n \in 1..Len(obj)}

RECURSIVE StyleObjects(_)
\* the style objects of at most n entries, nested ones counted, no key twice in one
\* object
StyleObjects(n) ==
  IF n = 0 THEN {<<>>}
  ELSE {<<>>} \cup
       UNION { UNION { { <<e>> \o rest : rest \in {r \in StyleObjects(n - m) :
                                                      e.k \notin keysOf(r)} }
                       : e \in {Num(k, v) : k \in StyleKeys, v \in StyleValues}
                                \cup (IF m = 1 THEN {}
                                      ELSE {Obj(k, kids) : k \in StyleKeys,
                                              kids \in StyleObjects(m - 1) \ {<<>>}}) }
               : m \in 1..n }

RECURSIVE reorderings(_)
\* the style objects that differ from obj by one exchange of two neighbouring keys,
\* at any nesting level
reorderings(obj) ==
  { [obj EXCEPT ![n] = obj[n + 1], ![n + 1] = obj[n]] : n \in 1..(Len(obj) - 1) }
  \cup UNION { { [obj EXCEPT ![n].kids = kids] : kids \in reorderings(obj[n].kids) }
               : n \in {x \in 1..Len(obj) : obj[x].t = "obj"} }

InitStyle ==
  /\ BuilderInit(SmallScope, [f \in AllFiles |-> IF f = "f01" THEN Css({"r1"}) ELSE NoCss])
  /\ hf = <<>>
  /\ runs = <<>>
  /\ \E obj \in StyleObjects(MaxEntries) \ {<<>>} :
       sample = [NoSample EXCEPT !.obj = obj, !.other = obj]

\* hashStyleObject(new Set(), obj), once and once more
hashSample ==
  /\ sample.hashed < 2
  /\ sample' = [sample EXCEPT
                  !.hashed = @ + 1,
                  !.first = IF sample.hashed = 0
                            THEN hashStyleObject({}, sample.obj, NoBase) ELSE @,
                  !.second = IF sample.hashed = 1
                             THEN hashStyleObject({}, sample.obj, NoBase) ELSE @,
                  !.reordered = IF sample.hashed = 0
                                THEN hashStyleObject({}, sample.other, NoBase) ELSE @,
                  !.entries = IF sample.hashed = 0
                              THEN styleEntries(sample.obj, NoBase) ELSE @]
  /\ UNCHANGED <<bvars, hf, runs>>

\* hashStyleObject(new Set(), other) for the same object with two keys exchanged
hashReordered ==
  /\ sample.hashed = 2
  /\ \E other \in reorderings(sample.other) :
       sample' = [sample EXCEPT !.other = other,
                                !.reordered = hashStyleObject({}, other, NoBase)]
  /\ UNCHANGED <<bvars, hf, runs>>

NextStyle == hashSample \/ hashReordered

SpecStyle == InitStyle /\ [][NextStyle]_vars

(***************************************************************************)
(* hashStyleObject on style objects of two documented shapes:              *)
(*   { P: v, C: { P: w } }              a property next to a condition block*)
(*   { P: { base: v0, c1: v1, ... } }   a property with conditional values  *)
(***************************************************************************)
PropKeys == {"p", "color", "mx"}
ShapeValues == {"4", "8"}

\* the sequences of n different keys of S
DistinctSeqs(S, n) ==
  {q \in [1..n -> S] : \A a, b \in 1..n : a # b => q[a] # q[b]}

\* { P: v, C: { P: w } }, or the same with the block first
blockShape(P, C, v, w, blockFirst) ==
  [kind |-> "block", prop |-> P, conds |-> <<C>>, values |-> <<v, w>>,
   blockFirst |-> blockFirst]
blockObject(shape) ==
  LET plain == Num(shape.prop, shape.values[1])
      block == Obj(shape.conds[1], <<Num(shape.prop, shape.values[2])>>)
  IN IF shape.blockFirst THEN <<block, plain>> ELSE <<plain, block>>

\* { P: { base: v0, c1: v1, ..., cn: vn } }
conditionalShape(P, conds, values) ==
  [kind |-> "conditional", prop |-> P, conds |-> conds, values |-> values,
   blockFirst |-> FALSE]
conditionalObject(shape) ==
  <<Obj(shape.prop,
        <<Num("base", shape.values[1])>>
        \o [n \in 1..Len(shape.conds) |-> Num(shape.conds[n], shape.values[n + 1])])>>

InitShapes ==
  /\ BuilderInit(SmallScope, [f \in AllFiles |-> IF f = "f01" THEN Css({"r1"}) ELSE NoCss])
  /\ hf = <<>>
  /\ runs = <<>>
  /\ \/ \E P \in PropKeys, C \in ConditionKeys, v, w \in ShapeValues,
            blockFirst \in BOOLEAN :
          LET shape == blockShape(P, C, v, w, blockFirst)
          IN sample = [NoSample EXCEPT !.shape = shape, !.obj = blockObject(shape),
                                       !.other = blockObject(shape)]
     \/ \E P \in PropKeys, n \in 0..MaxConds :
          \E conds \in DistinctSeqs(ConditionKeys \ {"base"}, n),
             values \in [1..(n + 1) -> ShapeValues] :
            LET shape == conditionalShape(P, conds, values)
            IN sample = [NoSample EXCEPT !.shape = shape,
                                         !.obj = conditionalObject(shape),
                                         !.other = conditionalObject(shape)]

NextShapes == hashSample

SpecShapes == InitShapes /\ [][NextShapes]_vars

(***************************************************************************)
(* Properties of the Builder                                               *)
(***************************************************************************)
\* C1: when extractFile runs for a file, the extractor is not invoked if the
\* Content Cache of the Builder's active context records the file's current
\* modification time, and is invoked if the file's time is newer than the recorded
\* one or none is recorded.
C1_StalenessFastPath ==
  ev.op = "extractFile" =>
    /\ (ev.recorded # Unset /\ ev.recorded = ev.mtime) => ~ev.invoked
    /\ (ev.recorded = Unset \/ ev.mtime > ev.recorded) => ev.invoked

\* a file is skipped: its recorded time is its current time
C1_Witness ==
  /\ ev.op = "extractFile"
  /\ ev.recorded # Unset /\ ev.recorded = ev.mtime
  /\ ~ev.invoked

\* C2 as stated: a tracked dependency whose modification time differs from the
\* snapshot makes setup() rebuild; all times as in the snapshot make it reuse the
\* cached context.
C2_Original ==
  ev.op = "setup" =>
    /\ ev.outcome = "changed" => setupPc[ev.b] = "load-changed"
    /\ ev.outcome = "same" =>
         /\ setupPc[ev.b] = "idle"
         /\ \E p \in ConfigPaths : context[ev.b] = configCache[p].context

\* C2 (amended): setup() goes on to load a fresh context exactly when some tracked
\* dependency on disk is newer than the snapshot of the Config Cache or absent from
\* it, or when there is no cache entry; otherwise it reuses the cached context and
\* loads nothing.
\* The context setupContext loads is fresh and replaces the Config Cache entry.
C2_ReloadWhenNewer ==
  /\ ev.op = "setup" /\ ev.stale => setupPc[ev.b] = "load-changed"
  /\ ev.op = "setup" /\ ~ev.loaded => setupPc[ev.b] \in {"load-changed", "load-first"}
  /\ ev.op = "setup" /\ ~ev.stale /\ ev.loaded =>
       /\ setupPc[ev.b] = "idle"
       /\ \E p \in ConfigPaths : context[ev.b] = configCache[p].context
  /\ ev.op = "setupContext" =>
       /\ context[ev.b] = nCtx
       /\ \E p \in ConfigPaths : configCache[p].context = nCtx
       /\ contentFilesCache[nCtx] = EmptyContent

\* a dependency's time moved backwards: setup() reuses the cached context
C2_Witness ==
  /\ ev.op = "setup"
  /\ ev.outcome = "changed" /\ ~ev.stale
  /\ setupPc[ev.b] = "idle"
  /\ context[ev.b] # NoCtx

\* C3: emit() invokes the emitter only if an emit() call came before in this process
\* and the most recent setup() of the Builder detected a change; the first emit()
\* call of the process emits nothing and sets hasEmitted; after a setup() that found
\* no change emit() emits nothing.
C3_EmitDebounced ==
  ev.op = "emit" =>
    /\ ev.emitted => ev.prior >= 1 /\ lastSetup[ev.b] = "changed"
    /\ ev.prior = 0 => ~ev.emitted /\ hasEmitted[ev.b]
    /\ lastSetup[ev.b] = "unchanged" => ~ev.emitted

\* the emitter runs
C3_Witness == ev.op = "emit" /\ ev.emitted

RECURSIVE SumInFlight(_)
SumInFlight(c) == IF c = 0 THEN 0 ELSE InFlight(c) + SumInFlight(c - 1)

\* C4: never more than 20 extractions are in flight, over all Builders and all
\* overlapping extract() calls, and the gate admits tasks in submission order: a
\* task starts only when every task submitted before it has started.
C4_GateBound ==
  /\ activeCount <= Limit
  /\ activeCount = SumInFlight(Len(calls))
  /\ \A c, d \in 1..Len(calls) :
       c < d /\ Len(calls[d].results) > 0 =>
         calls[c].returned \/ Len(calls[c].results) = Len(calls[c].files)

\* the gate is full and a task of another Builder's call waits
C4_Witness ==
  /\ activeCount = Limit
  /\ queue # <<>>
  /\ \E c, d \in 1..Len(calls) : ~calls[c].returned /\ ~calls[d].returned
                                 /\ calls[c].b # calls[d].b

\* C5: extract() returns only when every task it scheduled has run and settled, and
\* it never fails; a task whose file is stale and yields CSS is extracted and cached
\* whatever happened to the tasks before it.
C5_SettleAll ==
  /\ ev.op = "extractReturns" =>
       /\ ev.error = ""
       /\ Len(ev.results) = Len(ev.files)
       /\ ev.settled = Len(ev.files)
  /\ ( /\ ev.op = "extractFile"
       /\ ev.recorded # ev.mtime
       /\ ~fileContent[ev.file].throws /\ fileContent[ev.file].css # {} )
     => /\ ev.outcome = "css"
        /\ ev.recordedAfter = ev.mtime
        /\ fileContent[ev.file].css \subseteq ev.cssAfter

\* extract() returns after one file failed and a later one was extracted
C5_Witness ==
  /\ ev.op = "extractReturns"
  /\ \E i, j \in 1..Len(ev.results) :
       i < j /\ ev.results[i] = "rejected" /\ ev.results[j] = "css"

C7_Claim ==
  ev.op = "extractFile" /\ ev.invoked /\ ev.outcome # "rejected" =>
    ev.recordedAfter = ev.mtime

\* C8 as stated: on a Builder whose setup() has never completed successfully, every
\* operation that needs the context fails with 'context not loaded' and has no side
\* effect, the root handed to write() included.
C8_Claim ==
  ( /\ ev.op \in {"extract", "toString", "write", "registerDependency", "emit"}
    /\ ev.op = "emit" => ev.would
    /\ ~ev.ready )
  => /\ ev.error = ContextNotLoaded
     /\ ev.root # "emptied"
     /\ ev.call = 0

\* C20: whenever a setup() call returns successfully, be it by reusing the cached
\* context or after a load, the Builder holds a context, that context is the one in
\* the Config Cache entry of the configuration path, and it has a Content Cache
\* entry; also with two Builders on the same path whose setup() calls interleave.
C20_Claim ==
  (\/ ev.op = "setupDone"
   \/ ev.op = "setup" /\ setupPc[ev.b] = "idle") =>
    /\ context[ev.b] # NoCtx
    /\ \A p \in ConfigPaths : configCache[p].context = context[ev.b]
    /\ contentFilesCache[context[ev.b]].present

\* what C22 says of the state a step of setupContext, extractFile or toString leaves
C22_After ==
  /\ ev.op = "setupContext" => contentFilesCache[context[ev.b]] = EmptyContent
  /\ ev.op = "extractFile" /\ calls[ev.call].first => ev.invoked
  /\ ev.op = "toString" /\ ev.error = "" =>
       \A f \in AllFiles : writtenBy[context[ev.b]][f] \subseteq {context[ev.b]}

\* C22: when setup() rebuilds the context, the new context starts with an empty Content
\* Cache, so the first extract() on it invokes the extractor for every file in scope
\* and no fragment produced under another context is in the output of toString();
\* when setup() reuses the cached context, the Content Cache is left as it was.
C22_Claim ==
  [][/\ C22_After'
     /\ ev'.op = "setup" /\ ~ev'.modified /\ ev'.loaded =>
          contentFilesCache' = contentFilesCache]_vars

\* C23: every fragment and modification time in a context's Content Cache was written
\* by an extraction that ran with that same context, also when setup() replaces the
\* Builder's context while extractions of an earlier extract() are waiting or in flight.
C23_Claim ==
  \A c \in Ctxs, f \in AllFiles : writtenBy[c][f] \subseteq {c}

(***************************************************************************)
(* Properties of the HashFactory                                           *)
(***************************************************************************)
\* C9: on every HashFactory and for every recipe name, whatever processRecipe calls
\* were made and with whatever variant selections, the base styles were atomized into
\* recipes_base[name] at most once, and exactly once as soon as one call for the name
\* found base styles declared; recipes_base[name] then holds what one atomization of
\* the base styles yields, and so is not changed by later calls.
C9_BaseOnce ==
  \A i \in 1..Len(hf) : \A name \in Recipes \cup UnknownRecipes :
    LET config == getConfig(name)
        atomized == count(runs[i].base, name)
    IN /\ atomized <= 1
       /\ name \in DOMAIN hf[i].recipes_base <=> atomized = 1
       /\ count(runs[i].recipe, name) >= 1 /\ config.base.declared => atomized = 1
       /\ name \in DOMAIN hf[i].recipes_base =>
            hf[i].recipes_base[name]
              = hashStyleObject({}, config.base.styles, [recipe |-> name, slot |-> ""])

\* processRecipe ran twice for a recipe with base styles, with different selections
C9_Witness ==
  \E i \in 1..Len(hf) :
    /\ count(runs[i].recipe, "button") >= 2
    /\ \E v1, v2 \in Selections :
         /\ v1 # v2
         /\ hashStyleObject({}, assign(getConfig("button").defaultVariants, v1),
                            [recipe |-> "button", slot |-> ""])
              \cup hashStyleObject({}, assign(getConfig("button").defaultVariants, v2),
                                   [recipe |-> "button", slot |-> ""])
              = hf[i].recipes["button"]
    /\ count(runs[i].base, "button") = 1

\* C10: on every HashFactory and for every recipe or slot recipe name, the compound
\* variants were atomized at most once, whatever calls were made; as soon as one call
\* for a name that declares compound variants was made, the name is in
\* compound_variants and the hashes of every compound variant's style block are in
\* the atomic set.
C10_CompoundOnce ==
  \A i \in 1..Len(hf) : \A name \in Recipes \cup SlotRecipes \cup UnknownRecipes :
    LET config == getConfig(name)
        atomized == count(runs[i].compound, name)
        blocks == IF name \in SlotRecipes
                  THEN slotCompoundStyles(config.compoundVariants.list)
                  ELSE compoundStyles(config)
    IN /\ atomized <= 1
       /\ name \in hf[i].compound_variants <=> atomized = 1
       /\ count(runs[i].recipe, name) >= 1 /\ config.compoundVariants.declared
            => atomized = 1
       /\ name \in hf[i].compound_variants => atomizeAll({}, blocks) \subseteq hf[i].atomic

\* a recipe and a slot recipe with compound variants were each processed, one of
\* them twice
C10_Witness ==
  \E i \in 1..Len(hf) :
    /\ count(runs[i].recipe, "card") >= 2
    /\ count(runs[i].recipe, "button") >= 1
    /\ {"card", "button"} \subseteq hf[i].compound_variants

(***************************************************************************)
(* Properties of hashStyleObject                                           *)
(***************************************************************************)
\* C11 as stated: hashing a style object twice into fresh sets gives the same hashes,
\* and so does hashing the same object with its keys in another order, at any level.
C11_Original ==
  /\ sample.hashed = 2 => sample.second = sample.first
  /\ sample.hashed >= 1 => sample.reordered = sample.first

\* the condition keys on a path, base markers left out, joined
conditionsOn(path) ==
  join(filterBaseConditions(SelectSeq(path, isCondition)), conditionSeparator)

\* C21: the condition of every StyleEntry hashStyleObject emits is the joined sequence
\* of the condition keys on the path of its own leaf, base markers removed, whatever
\* was visited before; m in { _hover: { _dark: { p: 1 }, m: 2 } } gets _hover alone.
C21_Claim ==
  sample.hashed >= 1 =>
    \A n \in 1..Len(sample.entries) :
      sample.entries[n].entry.cond = conditionsOn(sample.entries[n].path)

\* the hash of the entry (prop, value) without condition, and under condition cond
plainHash(prop, value) == prop \o "]___[value:" \o value
condHash(prop, value, cond) == prop \o "]___[value:" \o value \o "]___[cond:" \o cond

\* C12 as stated: { P: v, C: { P: w } } with C a condition key gives exactly the two
\* entries (P, v, no condition) and (P, w, condition C).
C12_Original ==
  sample.shape.kind = "block" /\ sample.hashed >= 1 =>
    LET sh == sample.shape
    IN /\ sample.first = {plainHash(sh.prop, sh.values[1]),
                          condHash(sh.prop, sh.values[2], sh.conds[1])}
       /\ Cardinality(sample.first) = 2

\* C12 (amended): { P: v, C: { P: w } } with C a condition key other than the base
\* marker gives exactly the two entries (P', v, no condition) and (P', w, condition
\* C), in either key order, P' being the property P resolves to (P itself unless it
\* is a shorthand); with C the base marker both entries have no condition.
C12_PlainAndBlock ==
  sample.shape.kind = "block" /\ sample.hashed >= 1 =>
    LET sh == sample.shape
        prop == resolveShorthand(sh.prop)
    IN IF sh.conds[1] # "base"
       THEN /\ sample.first = {plainHash(prop, sh.values[1]),
                               condHash(prop, sh.values[2], sh.conds[1])}
            /\ Cardinality(sample.first) = 2
       ELSE sample.first = {plainHash(prop, sh.values[1]), plainHash(prop, sh.values[2])}

\* { p: 4, _hover: { p: 8 } } was hashed
C12_Witness ==
  /\ sample.hashed >= 1
  /\ sample.shape = blockShape("p", "_hover", "4", "8", FALSE)
  /\ sample.first = {"p]___[value:4", "p]___[value:8]___[cond:_hover"}

\* the entries the conditions c1..cn of a conditional value are expected to give
condHashes(prop, shape) ==
  {condHash(prop, shape.values[n + 1], shape.conds[n]) : n \in 1..Len(shape.conds)}

\* C13 as stated: { P: { base: v0, c1: v1, ..., cn: vn } } gives exactly n+1 entries,
\* all with prop P: (P, v0, no condition) and (P, vi, condition ci) for each i.
C13_Original ==
  sample.shape.kind = "conditional" /\ sample.hashed >= 1 =>
    LET sh == sample.shape
    IN /\ sample.first = {plainHash(sh.prop, sh.values[1])} \cup condHashes(sh.prop, sh)
       /\ Cardinality(sample.first) = Len(sh.conds) + 1

\* C13 (amended): { P: { base: v0, c1: v1, ..., cn: vn } } gives exactly n+1 entries,
\* all with the property P resolves to (P itself unless it is a shorthand): one
\* without condition and with value v0, and for each i one with condition ci and
\* value vi.
C13_ConditionalValues ==
  sample.shape.kind = "conditional" /\ sample.hashed >= 1 =>
    LET sh == sample.shape
        prop == resolveShorthand(sh.prop)
    IN /\ sample.first = {plainHash(prop, sh.values[1])} \cup condHashes(prop, sh)
       /\ Cardinality(sample.first) = Len(sh.conds) + 1

\* { p: { base: 4, sm: 8, _groupHover: 4 } } was hashed
C13_Witness ==
  /\ sample.hashed >= 1
  /\ sample.shape = conditionalShape("p", <<"sm", "_groupHover">>, <<"4", "8", "4">>)
  /\ sample.first = {"p]___[value:4", "p]___[value:8]___[cond:sm",
                     "p]___[value:4]___[cond:_groupHover"}

\* the property / value / condition combinations a variant selection can give
VariantCombos == {"size"} \X {"md", "sm", "lg"} \X {"", "md"}

\* C14: once processSlotRecipe ran for a slot recipe, any two different slots s1, s2
\* of it have their variant entries under the two different keys 'recipe:s1' and
\* 'recipe:s2' of recipes_slots; the same property / value / condition combination is
\* registered for both slots or for neither, under two different hashes (each carries
\* its slot), so the two sets share no hash and no entry of one slot is lost to the
\* other.
C14_SlotsKeyedApart ==
  \A i \in 1..Len(hf) : \A name \in SlotRecipes :
    count(runs[i].recipe, name) >= 1 =>
      LET slots == getConfig(name).slots
          registry == hf[i].recipes_slots
          hashOf(c, s) == hashStyleEntry(StyleEntry(c[1], c[2], c[3], name, s))
      IN \A m, n \in 1..Len(slots) :
           m # n =>
             LET k1 == name \o ":" \o slots[m]
                 k2 == name \o ":" \o slots[n]
             IN /\ k1 # k2
                /\ k1 \in DOMAIN registry
                /\ k2 \in DOMAIN registry
                /\ registry[k1] \cap registry[k2] = {}
                /\ registry[k1] \subseteq {hashOf(c, slots[m]) : c \in VariantCombos}
                /\ \A c \in VariantCombos :
                     /\ hashOf(c, slots[m]) # hashOf(c, slots[n])
                     /\ hashOf(c, slots[m]) \in registry[k1]
                          <=> hashOf(c, slots[n]) \in registry[k2]

\* processSlotRecipe("card", { size: { base: "sm", md: "lg" } }) ran: both slots hold
\* the two entries of the selection, each under its own key and with its own slot
C14_Witness ==
  \E i \in 1..Len(hf) :
    /\ DOMAIN hf[i].recipes_slots = {"card:root", "card:label"}
    /\ hf[i].recipes_slots["card:root"]
         = {"size]___[value:sm]___[recipe:card]___[slot:root",
            "size]___[value:lg]___[cond:md]___[recipe:card]___[slot:root"}
    /\ hf[i].recipes_slots["card:label"]
         = {"size]___[value:sm]___[recipe:card]___[slot:label",
            "size]___[value:lg]___[cond:md]___[recipe:card]___[slot:label"}

\* C15: a processRecipe or processSlotRecipe call made with a recipe name the
\* recipe-config provider does not know returns without an error and leaves the six
\* registries of the instance as they were, the keys of the four maps included (no
\* empty set is created under the name).
C15_UnknownIgnored ==
  [][\A i \in 1..Len(hf) :
       runs'[i].unknown # runs[i].unknown =>
         /\ hf'[i] = hf[i]
         /\ \A name \in UnknownRecipes :
              /\ name \notin DOMAIN hf'[i].recipes \cup DOMAIN hf'[i].recipes_base
              /\ name \notin hf'[i].compound_variants
              /\ \A key \in DOMAIN hf'[i].recipes_slots
                              \cup DOMAIN hf'[i].recipes_slots_base :
                   \A slot \in {"root", "label"} : key # name \o ":" \o slot]_vars

\* calls with an unknown name were made on an instance that holds recipe entries, and
\* on one that holds nothing
C15_Witness ==
  /\ \E i \in 1..Len(hf) :
       /\ runs[i].unknown >= 1
       /\ DOMAIN hf[i].recipes = {"button"}
       /\ hf[i].atomic # {}
  /\ \E i \in 1..Len(hf) :
       /\ runs[i].unknown >= 1
       /\ hf[i] = EmptyFactory

\* no style-entry hash is held in atomic or in any set of the four maps, and no name
\* in compound_variants
holdsNothing(h) ==
  /\ h.atomic = {}
  /\ h.compound_variants = {}
  /\ \A key \in DOMAIN h.recipes : h.recipes[key] = {}
  /\ \A key \in DOMAIN h.recipes_base : h.recipes_base[key] = {}
  /\ \A key \in DOMAIN h.recipes_slots : h.recipes_slots[key] = {}
  /\ \A key \in DOMAIN h.recipes_slots_base : h.recipes_slots_base[key] = {}

C17_ForkIndependent ==
  [][/\ Len(hf') > Len(hf) =>
          /\ hf' = Append(hf, EmptyFactory)
          /\ isEmpty(hf'[Len(hf')])
     /\ \A j \in 1..Len(hf') : runs'[j].calls = 0 => hf'[j] = EmptyFactory
     /\ \A j \in 1..Len(hf) : runs'[j].calls = runs[j].calls => hf'[j] = hf[j]
     /\ \A j \in 1..Len(hf) : \A name \in Recipes :
          count(runs[j].recipe, name) = 0 /\ count(runs'[j].recipe, name) = 1 =>
            LET config == getConfig(name)
                baseEntry == [recipe |-> name, slot |-> ""]
            IN /\ config.base.declared =>
                    /\ name \in DOMAIN hf'[j].recipes_base
                    /\ hf'[j].recipes_base[name]
                         = hashStyleObject({}, config.base.styles, baseEntry)
               /\ config.compoundVariants.declared =>
                    /\ name \in hf'[j].compound_variants
                    /\ atomizeAll({}, compoundStyles(config)) \subseteq hf'[j].atomic]_vars

\* a parent and its fork both processed the recipe "button": each holds the base
\* styles and the compound variants, atomized by its own first call
C17_Witness ==
  /\ Len(hf) = 2
  /\ \A j \in 1..2 :
       /\ count(runs[j].recipe, "button") = 1
       /\ count(runs[j].base, "button") = 1
       /\ count(runs[j].compound, "button") = 1
       /\ "button" \in DOMAIN hf[j].recipes_base
       /\ "button" \in hf[j].compound_variants

\* C19: a process* call made a second time with the same argument on the same
\* HashFactory, right after the first, leaves each of the six registries with the
\* members it had after the first time (an entry hashed again has the same hash, and
\* adding a hash a set holds changes nothing), whatever calls went before.
C19_Idempotent ==
  sample.hashed = 2 =>
    /\ hf[sample.call.i] = sample.after
    /\ \A key \in DOMAIN sample.after.recipes :
         Cardinality(hf[sample.call.i].recipes[key])
           = Cardinality(sample.after.recipes[key])
    /\ Cardinality(hf[sample.call.i].atomic) = Cardinality(sample.after.atomic)

\* processRecipe("button", { size: { base: "sm", md: "lg" } }) ran twice on an
\* instance that already held atomic entries: variant, base and compound entries
\* are all there
C19_Witness ==
  /\ sample.hashed = 2
  /\ sample.call.op = "processRecipe"
  /\ sample.call.name = "button"
  /\ Cardinality(hf[sample.call.i].recipes["button"]) = 2
  /\ "button" \in DOMAIN hf[sample.call.i].recipes_base
  /\ "button" \in hf[sample.call.i].compound_variants
  /\ runs[sample.call.i].calls = 3

\* what the Content Cache is to hold for a file of OrderScope once it was extracted,
\* from the file as it is on disk and the cache as it was before the calls
orderExpected(f) ==
  LET before == [time |-> OrderContent.fileModifiedMap[f],
                 css |-> OrderContent.fileCssMap[f]]
  IN IF before.time = fileTime[f] \/ fileContent[f].throws \/ fileContent[f].css = {}
     THEN before
     ELSE [time |-> fileTime[f], css |-> before.css \cup fileContent[f].css]

====
